---- MODULE Spec2Model ----
(***************************************************************************)
(* Model of src/app.py: the request dispatcher with its two API keys, the  *)
(* response handling of process_api_response / handle_api_response, the    *)
(* classifier identify_drawing_type and the extraction entry points, the   *)
(* normalisation of an answer (parse_ai_response, analyze_cylinder_image)  *)
(* and the processing of drawings into the table of records by main.       *)
(*                                                                         *)
(* Python strings are sequences of one-character strings.  The error       *)
(* marker (the cross-mark emoji of the source) is the character "#".       *)
(* Python values that may be a string, None or a list are records          *)
(* [t |-> "str" | "none" | "list" | "absent", v |-> <characters>].         *)
(***************************************************************************)
EXTENDS Integers, Sequences, FiniteSets, TLC

VARIABLES
    \* the dispatcher: the configured keys, the current key and one logical
    \* request (its entry point, its answered requests, its return value, the
    \* messages shown)
    API_KEY, API_KEY1, current_api_key, pc, fn, log, result, notices,
    \* one extraction followed through normalisation: the category, the lines
    \* of the model's answer, the value the entry point returns and the
    \* record main parses from it
    n_cat, n_lines, n_stage, n_result, parsed_results,
    \* the session of main: the registry of custom products, the table of
    \* drawings, the stored records, the position in the processing of one
    \* image, its drawing type, the number of images whose processing began
    \* and the exception that ended the last run of the script
    custom_products, drawings_table, all_results, m_pc, m_drawing_type,
    m_processed, m_error,
    \* the review of a drawing: the drawing selected, the values typed in
    \* the edit fields, the feedback popup, its pending corrections and the
    \* feedback submitted
    selected_drawing, edited_values, show_feedback_popup, feedback_data,
    feedback_history

dvars == <<API_KEY, API_KEY1, current_api_key, pc, fn, log, result, notices>>

nvars == <<n_cat, n_lines, n_stage, n_result, parsed_results>>

mvars == <<custom_products, drawings_table, all_results, m_pc,
           m_drawing_type, m_processed, m_error>>

rvars == <<selected_drawing, edited_values, show_feedback_popup,
           feedback_data, feedback_history>>

vars == <<dvars, nvars, mvars, rvars>>

(***************************************************************************)
(* Bounds                                                                  *)
(***************************************************************************)
\* Largest number of requests one logical request may issue before the
\* interpreter's recursion limit stops the retry recursion.
MaxDepth == 3

(***************************************************************************)
(* Python strings                                                          *)
(***************************************************************************)
LowerCase == <<"a","b","c","d","e","f","g","h","i","j","k","l","m",
               "n","o","p","q","r","s","t","u","v","w","x","y","z">>

UpperCase == <<"A","B","C","D","E","F","G","H","I","J","K","L","M",
               "N","O","P","Q","R","S","T","U","V","W","X","Y","Z">>

Whitespace == {" ", "\n", "\t"}

\* The cross-mark character that tags every error string.
ErrorMarker == "#"

upper_char(c) ==
    IF \E i \in 1..26 : LowerCase[i] = c
    THEN UpperCase[CHOOSE i \in 1..26 : LowerCase[i] = c]
    ELSE c

lower_char(c) ==
    IF \E i \in 1..26 : UpperCase[i] = c
    THEN LowerCase[CHOOSE i \in 1..26 : UpperCase[i] = c]
    ELSE c

\* str.upper()
upper(s) == [i \in 1..Len(s) |-> upper_char(s[i])]

\* str.lower()
lower(s) == [i \in 1..Len(s) |-> lower_char(s[i])]

\* str.strip()
strip(s) ==
    LET keep == {i \in 1..Len(s) : s[i] \notin Whitespace}
    IN  IF keep = {} THEN <<>>
        ELSE SubSeq(s, CHOOSE i \in keep : \A j \in keep : i <= j,
                       CHOOSE i \in keep : \A j \in keep : i >= j)

\* sub in s
Contains(s, sub) ==
    \E i \in 0..(Len(s) - Len(sub)) : SubSeq(s, i + 1, i + Len(sub)) = sub

(***************************************************************************)
(* Python values                                                           *)
(***************************************************************************)
Str(s) == [t |-> "str", v |-> s]

None == [t |-> "none", v |-> <<>>]

List == [t |-> "list", v |-> <<>>]

\* A list that has an item, e.g. a content given as a list of parts
Parts == [t |-> "list", v |-> <<"part">>]

Absent == [t |-> "absent", v |-> <<>>]

\* str(x) inside an f-string
str(x) ==
    CASE x.t = "str"  -> x.v
      [] x.t = "none" -> <<"N","o","n","e">>
      [] OTHER        -> <<"[","]">>

\* Truthiness of a Python value
Truthy(x) == x.t \in {"str", "list"} /\ Len(x.v) > 0

\* f"<marker> API Error: {error_msg}"
ApiError(msg) ==
    Str(<<ErrorMarker," ","A","P","I"," ","E","r","r","o","r",":"," ">> \o msg)

\* f"<marker> Processing Error: {str(e)}"; e is the exception's text
ProcessingError(e) ==
    Str(<<ErrorMarker," ","P","r","o","c","e","s","s","i","n","g"," ",
          "E","r","r","o","r",":"," ">> \o e)

UnknownErrorOccurred ==
    <<"U","n","k","n","o","w","n"," ","e","r","r","o","r"," ",
      "o","c","c","u","r","r","e","d">>

CouldNotIdentify ==
    Str(<<ErrorMarker," ","C","o","u","l","d"," ","n","o","t"," ",
          "i","d","e","n","t","i","f","y"," ","d","r","a","w","i","n","g",
          " ","t","y","p","e">>)

\* Texts of the exceptions the handlers catch
TypeErrorText == <<"T","y","p","e","E","r","r","o","r">>

IndexErrorText == <<"I","n","d","e","x","E","r","r","o","r">>

AttributeErrorText == <<"A","t","t","r","i","b","u","t","e","E","r","r","o","r">>

JSONDecodeErrorText == <<"J","S","O","N","D","e","c","o","d","e","E","r","r","o","r">>

ConnectionErrorText == <<"C","o","n","n","e","c","t","i","o","n","E","r","r","o","r">>

RecursionErrorText == <<"R","e","c","u","r","s","i","o","n","E","r","r","o","r">>

\* No exception ended the run
NoError == <<>>

(***************************************************************************)
(* Configuration and responses of the remote service                       *)
(***************************************************************************)
\* os.getenv of a key that is not set (None, or the empty string): falsy
NoKey == "none"

KeyValues == {"keyA", "keyB"}

\* error.get('code') of an error object that carries no code
NoCode == 0

Statuses == {200, 429}

Codes == {429, 400, 401, 403, 500, 404, NoCode}

MsgQuota == <<"Q","u","o","t","a"," ","h","i","t">>

MsgRate == <<"r","a","t","e"," ","l","i","m","i","t">>

MsgOther == <<"b","a","d">>

Messages == {Str(MsgQuota), Str(MsgRate), Str(MsgOther), None, Absent}

CYLINDER == <<"C","Y","L","I","N","D","E","R">>

VALVE == <<"V","A","L","V","E">>

GEARBOX == <<"G","E","A","R","B","O","X">>

NUT == <<"N","U","T">>

LIFTING_RAM == <<"L","I","F","T","I","N","G","_","R","A","M">>

UNKNOWN == <<"U","N","K","N","O","W","N">>

\* The categories identify_drawing_type accepts
Categories == {CYLINDER, VALVE, GEARBOX, NUT, LIFTING_RAM}

\* Answers of the model (choices[0].message.content)
TxtValvePadded == <<" ","v","a","l","v","e","\n">>

TxtThisIsACylinder ==
    <<"T","H","I","S"," ","I","S"," ","A"," ","C","Y","L","I","N","D","E","R">>

TxtDonut == <<"D","O","N","U","T">>

TxtFields == <<"M","A","K","E",":"," ","X">>

TxtChoices == <<"c","h","o","i","c","e","s">>

TxtMarked == <<ErrorMarker," ","n","o">>

Contents ==
    {Str(CYLINDER), Str(TxtValvePadded), Str(TxtThisIsACylinder), Str(UNKNOWN),
     Str(TxtDonut), Str(TxtFields), Str(TxtChoices), Str(TxtMarked), Str(<<>>),
     None, List, Parts}

\* One outcome of requests.post:
\*   kind    "exception" (the transport raised), "invalid" (the body is not
\*           JSON) or "json" (the body is a JSON object)
\*   status  response.status_code
\*   choices "absent", "empty" ([]) or "ok" (choices[0].message.content exists)
\*   content choices[0].message.content
\*   error   "absent", "string" (an error field that is not an object) or "dict"
\*   code, message   error.code and error.message
Resp(k, s, ch, co, er, cd, m) ==
    [kind |-> k, status |-> s, choices |-> ch, content |-> co,
     error |-> er, code |-> cd, message |-> m]

Responses ==
    {Resp("exception", 200, "absent", None, "absent", NoCode, Absent)}
    \cup {Resp("invalid", s, "absent", None, "absent", NoCode, Absent) : s \in Statuses}
    \cup {Resp("json", s, "ok", c, "absent", NoCode, Absent) : s \in Statuses, c \in Contents}
    \cup {Resp("json", s, ch, None, er, NoCode, Absent) :
              s \in Statuses, ch \in {"absent", "empty"}, er \in {"absent", "string"}}
    \cup {Resp("json", s, "absent", None, "dict", cd, m) :
              s \in Statuses, cd \in Codes, m \in Messages}
    \cup {Resp("json", s, "ok", Str(TxtFields), "dict", cd, Str(m)) :
              s \in Statuses, cd \in {429, 400}, m \in {MsgQuota, MsgOther}}

\* The entry points that send a request
Classifier == "identify_drawing_type"

Extractors == {"analyze_valve_image", "analyze_gearbox_image",
               "analyze_nut_image", "analyze_lifting_ram_image"}

\* The extractor that cleans its answer up before returning it
CylinderExtractor == "analyze_cylinder_image"

EntryPoints == {Classifier, CylinderExtractor} \cup Extractors

(***************************************************************************)
(* switch_api_key, handle_api_response, process_api_response               *)
(***************************************************************************)
\* switch_api_key(): whether it switched, and the key that is current after
switch_api_key ==
    IF current_api_key = API_KEY /\ API_KEY1 # NoKey
    THEN [ok |-> TRUE, key |-> API_KEY1]
    ELSE IF current_api_key = API_KEY1 /\ API_KEY # NoKey
    THEN [ok |-> TRUE, key |-> API_KEY]
    ELSE [ok |-> FALSE, key |-> current_api_key]

\* error.get('message', '')
error_message(r) == IF r.message.t = "absent" THEN Str(<<>>) ELSE r.message

\* ErrorBranch with the authentication failure handled like a quota error
ErrorBranch_auth_rotates(code, message) ==
    IF code = 429 /\ message.t # "str" THEN "raise"
    ELSE IF code = 429 /\ Contains(lower(message.v), <<"q","u","o","t","a">>)
    THEN "quota"
    ELSE IF code = 400 THEN "bad_request"
    ELSE IF code = 401 THEN "quota"
    ELSE IF code = 403 THEN "forbidden"
    ELSE IF code = 500 THEN "server_error"
    ELSE "api_error"

\* ErrorBranch with the server error handled like a quota error
ErrorBranch_server_rotates(code, message) ==
    IF code = 429 /\ message.t # "str" THEN "raise"
    ELSE IF code = 429 /\ Contains(lower(message.v), <<"q","u","o","t","a">>)
    THEN "quota"
    ELSE IF code = 400 THEN "bad_request"
    ELSE IF code = 401 THEN "auth_failed"
    ELSE IF code = 403 THEN "forbidden"
    ELSE IF code = 500 THEN "quota"
    ELSE "api_error"

\* The if/elif chain of handle_api_response over an error object: the
\* branch taken, or "raise" when error_message.lower() fails.
ErrorBranch(code, message) ==
    IF code = 429 /\ message.t # "str" THEN "raise"
    ELSE IF code = 429 /\ Contains(lower(message.v), <<"q","u","o","t","a">>)
    THEN "quota"
    ELSE IF code = 400 THEN "bad_request"
    ELSE IF code = 401 THEN "auth_failed"
    ELSE IF code = 403 THEN "forbidden"
    ELSE IF code = 500 THEN "server_error"
    ELSE "api_error"

\* What handle_api_response does with a parsed body: "json" (returns the
\* body itself), "raise", or the branch of the error chain.
HandleBranch(r) ==
    IF r.error = "dict" THEN ErrorBranch(r.code, error_message(r)) ELSE "json"

\* response.status_code == 200 and "choices" in response_json
SuccessPath(r) == r.status = 200 /\ r.choices # "absent"

\* response_json["choices"][0]["message"]["content"], inside the try
ChoicesContent(r) ==
    IF r.choices = "empty" THEN ProcessingError(IndexErrorText) ELSE r.content

\* Lines 105-106: the error string built from the body
ErrorMsgResult(r) ==
    IF r.error = "absent" THEN ApiError(UnknownErrorOccurred)
    ELSE IF r.error = "string" THEN ProcessingError(AttributeErrorText)
    ELSE IF r.message.t = "absent" THEN ApiError(UnknownErrorOccurred)
    ELSE ApiError(str(r.message))

\* Lines 101-106 when handle_api_response returned the value of the retried
\* call (a string, None or a list) or None
AfterHandled(r, handled) ==
    IF Truthy(handled) /\ Contains(handled.v, <<"c","h","o","i","c","e","s">>)
    THEN ProcessingError(TypeErrorText)
    ELSE ErrorMsgResult(r)

\* The response makes handle_api_response call switch_api_key
Rotates(r) ==
    /\ r.kind = "json"
    /\ ~SuccessPath(r)
    /\ HandleBranch(r) = "quota"

\* process_api_response(response) when no retry is made
ProcessLeaf(r) ==
    IF r.kind = "invalid" THEN ProcessingError(JSONDecodeErrorText)
    ELSE IF SuccessPath(r) THEN ChoicesContent(r)
    ELSE IF HandleBranch(r) = "raise" THEN ProcessingError(AttributeErrorText)
    ELSE IF HandleBranch(r) = "json" /\ r.choices # "absent" THEN ChoicesContent(r)
    ELSE ErrorMsgResult(r)

\* The st.error shown by handle_api_response for a body it does not retry
LeafNotice(r) ==
    IF r.kind = "json" /\ ~SuccessPath(r) /\ r.error = "dict"
       /\ HandleBranch(r) \notin {"raise", "quota"}
    THEN {HandleBranch(r)}
    ELSE {}

(***************************************************************************)
(* Splitting, dictionaries and parse_ai_response                           *)
(***************************************************************************)
DigitChars == {"0","1","2","3","4","5","6","7","8","9"}

\* Index of the first and of the last occurrence of sub in s (sub occurs)
RECURSIVE FirstIndexFrom(_, _, _)
FirstIndexFrom(s, sub, i) ==
    IF SubSeq(s, i, i + Len(sub) - 1) = sub THEN i
    ELSE FirstIndexFrom(s, sub, i + 1)

FirstIndex(s, sub) == FirstIndexFrom(s, sub, 1)

RECURSIVE LastIndexFrom(_, _, _)
LastIndexFrom(s, sub, i) ==
    IF SubSeq(s, i, i + Len(sub) - 1) = sub THEN i
    ELSE LastIndexFrom(s, sub, i - 1)

LastIndex(s, sub) == LastIndexFrom(s, sub, Len(s) - Len(sub) + 1)

\* s.split(sub)[0]
BeforeFirst(s, sub) ==
    IF Contains(s, sub) THEN SubSeq(s, 1, FirstIndex(s, sub) - 1) ELSE s

\* s.split(sub, 1)[1], for a separator that occurs
AfterFirst(s, sub) == SubSeq(s, FirstIndex(s, sub) + Len(sub), Len(s))

\* s.split(sub)[-1]
AfterLast(s, sub) ==
    IF Contains(s, sub) THEN SubSeq(s, LastIndex(s, sub) + Len(sub), Len(s))
    ELSE s

\* s.split('\n')
RECURSIVE split_lines(_)
split_lines(s) ==
    IF Contains(s, <<"\n">>)
    THEN <<BeforeFirst(s, <<"\n">>)>> \o split_lines(AfterFirst(s, <<"\n">>))
    ELSE <<s>>

\* A Python dict of strings: its items in insertion order, keys distinct
DictHas(d, key) == \E i \in 1..Len(d) : d[i].k = key

\* d.get(key, default)
DictGet(d, key, default) ==
    IF DictHas(d, key) THEN d[CHOOSE i \in 1..Len(d) : d[i].k = key].v
    ELSE default

\* d[key] = value
DictSet(d, key, value) ==
    IF DictHas(d, key)
    THEN [i \in 1..Len(d) |->
             IF d[i].k = key THEN [k |-> key, v |-> value] ELSE d[i]]
    ELSE Append(d, [k |-> key, v |-> value])

DictKeys(d) == {d[i].k : i \in 1..Len(d)}

\* HasPlaceholder comparing without lower()
HasPlaceholder_case_sensitive(value) ==
    \/ Contains(value, <<"[","v","a","l","u","e","]">>)
    \/ Contains(value, <<"[","v","a","l","u","e","s","]">>)

\* '[value]' in value.lower() or '[values]' in value.lower()
HasPlaceholder(value) ==
    \/ Contains(lower(value), <<"[","v","a","l","u","e","]">>)
    \/ Contains(lower(value), <<"[","v","a","l","u","e","s","]">>)

\* ParseLine dropping the lines whose value is empty
ParseLine_skips_empty(results, line) ==
    IF Contains(line, <<":">>)
    THEN LET key == upper(strip(BeforeFirst(line, <<":">>)))
             value == strip(AfterFirst(line, <<":">>))
         IN  IF value = <<>> \/ HasPlaceholder(value) THEN results
             ELSE DictSet(results, key, value)
    ELSE results

\* The body of the loop of parse_ai_response for one line
ParseLine(results, line) ==
    IF Contains(line, <<":">>)
    THEN LET key == upper(strip(BeforeFirst(line, <<":">>)))
             value == strip(AfterFirst(line, <<":">>))
         IN  DictSet(results, key, IF HasPlaceholder(value) THEN <<>> ELSE value)
    ELSE results

RECURSIVE ParseLines(_, _)
ParseLines(results, lines) ==
    IF lines = <<>> THEN results
    ELSE ParseLines(ParseLine(results, Head(lines)), Tail(lines))

\* parse_ai_response(response_text)
parse_ai_response(response_text) == ParseLines(<<>>, split_lines(response_text))

(***************************************************************************)
(* get_parameters_for_type                                                 *)
(***************************************************************************)
F_CYLINDER_ACTION ==
    <<"C","Y","L","I","N","D","E","R"," ","A","C","T","I","O","N">>

F_BORE_DIAMETER ==
    <<"B","O","R","E"," ","D","I","A","M","E","T","E","R">>

F_ROD_DIAMETER ==
    <<"R","O","D"," ","D","I","A","M","E","T","E","R">>

F_STROKE_LENGTH ==
    <<"S","T","R","O","K","E"," ","L","E","N","G","T","H">>

F_CLOSE_LENGTH ==
    <<"C","L","O","S","E"," ","L","E","N","G","T","H">>

F_OPERATING_PRESSURE ==
    <<"O","P","E","R","A","T","I","N","G"," ","P","R","E","S","S","U","R",
      "E">>

F_OPERATING_TEMPERATURE ==
    <<"O","P","E","R","A","T","I","N","G"," ","T","E","M","P","E","R","A",
      "T","U","R","E">>

F_MOUNTING ==
    <<"M","O","U","N","T","I","N","G">>

F_ROD_END ==
    <<"R","O","D"," ","E","N","D">>

F_FLUID ==
    <<"F","L","U","I","D">>

F_DRAWING_NUMBER ==
    <<"D","R","A","W","I","N","G"," ","N","U","M","B","E","R">>

F_MODEL_NO ==
    <<"M","O","D","E","L"," ","N","O">>

F_SIZE_OF_VALVE ==
    <<"S","I","Z","E"," ","O","F"," ","V","A","L","V","E">>

F_PRESSURE_RATING ==
    <<"P","R","E","S","S","U","R","E"," ","R","A","T","I","N","G">>

F_MAKE ==
    <<"M","A","K","E">>

F_TYPE ==
    <<"T","Y","P","E">>

F_NUMBER_OF_TEETH ==
    <<"N","U","M","B","E","R"," ","O","F"," ","T","E","E","T","H">>

F_MODULE ==
    <<"M","O","D","U","L","E">>

F_MATERIAL ==
    <<"M","A","T","E","R","I","A","L">>

F_PRESSURE_ANGLE ==
    <<"P","R","E","S","S","U","R","E"," ","A","N","G","L","E">>

F_FACE_WIDTH_LENGTH ==
    <<"F","A","C","E"," ","W","I","D","T","H",","," ","L","E","N","G","T",
      "H">>

F_HAND ==
    <<"H","A","N","D">>

F_HELIX_ANGLE ==
    <<"H","E","L","I","X"," ","A","N","G","L","E">>

F_SIZE ==
    <<"S","I","Z","E">>

F_PROPERTY_CLASS ==
    <<"P","R","O","P","E","R","T","Y"," ","C","L","A","S","S">>

F_THREAD_PITCH ==
    <<"T","H","R","E","A","D"," ","P","I","T","C","H">>

F_COATING ==
    <<"C","O","A","T","I","N","G">>

F_NUT_STANDARD ==
    <<"N","U","T"," ","S","T","A","N","D","A","R","D">>

F_HEIGHT ==
    <<"H","E","I","G","H","T">>

F_TOTAL_STROKE ==
    <<"T","O","T","A","L"," ","S","T","R","O","K","E">>

F_PISTON_STROKE ==
    <<"P","I","S","T","O","N"," ","S","T","R","O","K","E">>

F_PISTON_LIFTING_FORCE ==
    <<"P","I","S","T","O","N"," ","L","I","F","T","I","N","G"," ","F","O",
      "R","C","E">>

F_WEIGHT ==
    <<"W","E","I","G","H","T">>

F_OIL_VOLUME ==
    <<"O","I","L"," ","V","O","L","U","M","E">>

\* get_parameters_for_type(drawing_type)
get_parameters_for_type(dt) ==
    IF dt = CYLINDER
    THEN <<F_CYLINDER_ACTION, F_BORE_DIAMETER, F_ROD_DIAMETER,
           F_STROKE_LENGTH, F_CLOSE_LENGTH, F_OPERATING_PRESSURE,
           F_OPERATING_TEMPERATURE, F_MOUNTING, F_ROD_END, F_FLUID,
           F_DRAWING_NUMBER>>
    ELSE IF dt = VALVE
    THEN <<F_MODEL_NO, F_SIZE_OF_VALVE, F_PRESSURE_RATING, F_MAKE>>
    ELSE IF dt = GEARBOX
    THEN <<F_TYPE, F_NUMBER_OF_TEETH, F_MODULE, F_MATERIAL,
           F_PRESSURE_ANGLE, F_FACE_WIDTH_LENGTH, F_HAND,
           F_MOUNTING, F_HELIX_ANGLE, F_DRAWING_NUMBER>>
    ELSE IF dt = NUT
    THEN <<F_TYPE, F_SIZE, F_PROPERTY_CLASS, F_THREAD_PITCH,
           F_COATING, F_NUT_STANDARD, F_DRAWING_NUMBER>>
    ELSE IF dt = LIFTING_RAM
    THEN <<F_HEIGHT, F_TOTAL_STROKE, F_PISTON_STROKE,
           F_PISTON_LIFTING_FORCE, F_WEIGHT, F_OIL_VOLUME,
           F_DRAWING_NUMBER>>
    ELSE <<>>

(***************************************************************************)
(* analyze_cylinder_image: the clean-up of the parsed answer               *)
(***************************************************************************)
\* The degree sign of a temperature is written "*"
HydOilMineral ==
    <<"H","Y","D","."," ","O","I","L"," ","M","I","N","E","R","A","L">>

\* Lines 196-199: MOUNTING and ROD END that are a bare placeholder
CleanPlaceholder(d, key) ==
    IF strip(DictGet(d, key, <<>>)) \in {<<"[","v","a","l","u","e","]">>, <<"[","V","a","l","u","e","]">>, <<"[","V","A","L","U","E","S","]">>}
    THEN DictSet(d, key, <<>>)
    ELSE d

\* SubstituteFluid looking at the mounting instead of the fluid
SubstituteFluid_mounting(d) ==
    IF upper(strip(DictGet(d, F_MOUNTING, <<>>))) = <<"H","L","P">>
    THEN DictSet(d, F_MOUNTING, HydOilMineral)
    ELSE d

\* Lines 202-203: the fluid code HLP
SubstituteFluid(d) ==
    IF upper(strip(DictGet(d, F_FLUID, <<>>))) = <<"H","L","P">>
    THEN DictSet(d, F_FLUID, HydOilMineral)
    ELSE d

\* MaxTempText taking the first bound of a range instead of the last
MaxTempText_lower_bound(temp) ==
    IF Contains(upper(temp), <<"T","O">>)
    THEN strip(BeforeFirst(BeforeFirst(upper(temp), <<"T","O">>), <<"D","E","G">>))
    ELSE IF Contains(temp, <<"+">>)
    THEN strip(BeforeFirst(BeforeFirst(temp, <<"+">>), <<"D","E","G">>))
    ELSE strip(BeforeFirst(temp, <<"D","E","G">>))

\* Lines 209-217: the text of the maximum of a non-empty temperature
MaxTempText(temp) ==
    IF Contains(upper(temp), <<"T","O">>)
    THEN strip(BeforeFirst(AfterLast(upper(temp), <<"T","O">>), <<"D","E","G">>))
    ELSE IF Contains(temp, <<"+">>)
    THEN strip(BeforeFirst(AfterLast(temp, <<"+">>), <<"D","E","G">>))
    ELSE strip(BeforeFirst(temp, <<"D","E","G">>))

\* Line 220: keep the digits and the decimal points
DigitsAndDots(s) == SelectSeq(s, LAMBDA c : c \in DigitChars \cup {"."})

\* Lines 206-222: the operating temperature reduced to its maximum
ReduceTemperature(d) ==
    LET temp == strip(DictGet(d, F_OPERATING_TEMPERATURE, <<>>))
        max_temp == DigitsAndDots(MaxTempText(temp))
    IN  IF temp # <<>> /\ max_temp # <<>>
        THEN DictSet(d, F_OPERATING_TEMPERATURE, max_temp \o <<" ","D","E","G"," ","C">>)
        ELSE d

\* '\n'.join([f"{k}: {v}" for k, v in parsed_results.items()])
RECURSIVE JoinItems(_)
JoinItems(d) ==
    IF d = <<>> THEN <<>>
    ELSE IF Len(d) = 1 THEN d[1].k \o <<":"," ">> \o d[1].v
    ELSE d[1].k \o <<":"," ">> \o d[1].v \o <<"\n">> \o JoinItems(Tail(d))

\* Lines 193-224 on an answer that carries no error marker
CylinderCleanUp(text) ==
    JoinItems(ReduceTemperature(SubstituteFluid(
        CleanPlaceholder(CleanPlaceholder(parse_ai_response(text),
                                          F_MOUNTING), F_ROD_END))))

\* analyze_cylinder_image, lines 190-227, on the value of
\* process_api_response
analyze_cylinder_image(v) ==
    IF v.t = "none" THEN ProcessingError(TypeErrorText)
    ELSE IF v.t = "list" THEN ProcessingError(AttributeErrorText)
    ELSE IF Contains(v.v, <<ErrorMarker>>) THEN v
    ELSE Str(CylinderCleanUp(v.v))

(***************************************************************************)
(* Entry points                                                            *)
(***************************************************************************)
\* ResolveCategory resolving by containment instead of equality
ResolveCategory_containment(text) ==
    LET drawing_type == upper(strip(text))
    IN  IF \E c \in Categories : Contains(drawing_type, c)
        THEN Str(CHOOSE c \in Categories : Contains(drawing_type, c))
        ELSE IF drawing_type = UNKNOWN THEN CouldNotIdentify
        ELSE Str(text)

\* identify_drawing_type, lines 386-390, on a string result
ResolveCategory(text) ==
    LET drawing_type == upper(strip(text))
    IN  IF drawing_type \in Categories THEN Str(drawing_type)
        ELSE IF drawing_type = UNKNOWN THEN CouldNotIdentify
        ELSE Str(text)

\* identify_drawing_type, lines 384-392, on the value of process_api_response
identify_drawing_type(v) ==
    IF v.t = "none" THEN ProcessingError(TypeErrorText)
    ELSE IF v.t = "list" THEN ProcessingError(AttributeErrorText)
    ELSE IF Contains(v.v, <<ErrorMarker>>) THEN v
    ELSE ResolveCategory(v.v)

\* What the entry point f returns when process_api_response returned v
EntryPoint(f, v) ==
    IF f = Classifier THEN identify_drawing_type(v)
    ELSE IF f = CylinderExtractor THEN analyze_cylinder_image(v)
    ELSE v

\* Returns through the pending frames of the retry recursion: frames are the
\* responses that made the enclosing calls retry, outermost first.
RECURSIVE Unwind(_, _, _)
Unwind(f, frames, v) ==
    IF frames = <<>> THEN v
    ELSE Unwind(f, SubSeq(frames, 1, Len(frames) - 1),
                EntryPoint(f, AfterHandled(frames[Len(frames)], v)))

Frames(l) == [i \in 1..Len(l) |-> l[i].resp]

(***************************************************************************)
(* State machine of one logical request                                    *)
(***************************************************************************)
\* The normalisation and the session are not exercised
NormOff ==
    /\ n_cat = <<>>
    /\ n_lines = <<>>
    /\ n_stage = "off"
    /\ n_result = None
    /\ parsed_results = <<>>

MainOff ==
    /\ custom_products = <<>>
    /\ drawings_table = <<>>
    /\ all_results = <<>>
    /\ m_pc = "off"
    /\ m_drawing_type = None
    /\ m_processed = 0
    /\ m_error = NoError

\* Lines 737-750: the review as the session starts
ReviewOff ==
    /\ selected_drawing = None
    /\ edited_values = <<>>
    /\ show_feedback_popup = FALSE
    /\ feedback_data = <<>>
    /\ feedback_history = <<>>

Init ==
    /\ API_KEY \in KeyValues \cup {NoKey}
    /\ API_KEY1 \in KeyValues \cup {NoKey}
    /\ API_KEY # NoKey \/ API_KEY1 # NoKey
    /\ current_api_key = API_KEY
    /\ pc = "idle"
    /\ fn = Classifier
    /\ log = <<>>
    /\ result = None
    /\ notices = {}
    /\ NormOff
    /\ MainOff
    /\ ReviewOff

\* An entry point is called and posts its request with the current key
Start(f) ==
    /\ pc = "idle"
    /\ pc' = "wait"
    /\ fn' = f
    /\ log' = <<>>
    /\ result' = None
    /\ notices' = {}
    /\ UNCHANGED <<API_KEY, API_KEY1, current_api_key>>
    /\ UNCHANGED <<nvars, mvars, rvars>>

\* requests.post raises: the except of the entry point builds the result
TransportError(r) ==
    /\ pc = "wait"
    /\ r.kind = "exception"
    /\ log' = Append(log, [key |-> current_api_key, resp |-> r])
    /\ result' = Unwind(fn, Frames(log), ProcessingError(ConnectionErrorText))
    /\ pc' = "done"
    /\ UNCHANGED <<API_KEY, API_KEY1, current_api_key, fn, notices>>
    /\ UNCHANGED <<nvars, mvars, rvars>>

\* A response that is not retried: the call returns
Finish(r) ==
    /\ pc = "wait"
    /\ r.kind # "exception"
    /\ ~Rotates(r)
    /\ log' = Append(log, [key |-> current_api_key, resp |-> r])
    /\ result' = Unwind(fn, Frames(log), EntryPoint(fn, ProcessLeaf(r)))
    /\ notices' = notices \cup LeafNotice(r)
    /\ pc' = "done"
    /\ UNCHANGED <<API_KEY, API_KEY1, current_api_key, fn>>
    /\ UNCHANGED <<nvars, mvars, rvars>>

\* A quota error with no key to switch to
Exhausted(r) ==
    /\ pc = "wait"
    /\ Rotates(r)
    /\ ~switch_api_key.ok
    /\ log' = Append(log, [key |-> current_api_key, resp |-> r])
    /\ result' = Unwind(fn, Frames(log), EntryPoint(fn, ErrorMsgResult(r)))
    /\ notices' = notices \cup {"all_exhausted"}
    /\ pc' = "done"
    /\ UNCHANGED <<API_KEY, API_KEY1, current_api_key, fn>>
    /\ UNCHANGED <<nvars, mvars, rvars>>

\* A quota error: the key is switched and the entry point calls itself
Retry(r) ==
    /\ pc = "wait"
    /\ Rotates(r)
    /\ switch_api_key.ok
    /\ Len(log) + 1 < MaxDepth
    /\ log' = Append(log, [key |-> current_api_key, resp |-> r])
    /\ current_api_key' = switch_api_key.key
    /\ notices' = notices \cup {"switching"}
    /\ UNCHANGED <<API_KEY, API_KEY1, pc, fn, result>>
    /\ UNCHANGED <<nvars, mvars, rvars>>

\* The same, when the retried call exceeds the recursion limit: the
\* RecursionError is caught by the except of the called entry point
RetryTooDeep(r) ==
    /\ pc = "wait"
    /\ Rotates(r)
    /\ switch_api_key.ok
    /\ Len(log) + 1 >= MaxDepth
    /\ log' = Append(log, [key |-> current_api_key, resp |-> r])
    /\ current_api_key' = switch_api_key.key
    /\ notices' = notices \cup {"switching"}
    /\ result' = Unwind(fn, Frames(log'), ProcessingError(RecursionErrorText))
    /\ pc' = "done"
    /\ UNCHANGED <<API_KEY, API_KEY1, fn>>
    /\ UNCHANGED <<nvars, mvars, rvars>>

\* The caller takes the result
Return ==
    /\ pc = "done"
    /\ pc' = "idle"
    /\ log' = <<>>
    /\ result' = None
    /\ notices' = {}
    /\ UNCHANGED <<API_KEY, API_KEY1, current_api_key, fn>>
    /\ UNCHANGED <<nvars, mvars, rvars>>

Next ==
    \/ \E f \in EntryPoints : Start(f)
    \/ \E r \in Responses : TransportError(r)
    \/ \E r \in Responses : Finish(r)
    \/ \E r \in Responses : Exhausted(r)
    \/ \E r \in Responses : Retry(r)
    \/ \E r \in Responses : RetryTooDeep(r)
    \/ Return

Spec == Init /\ [][Next]_vars

(***************************************************************************)
(* Vocabulary of the properties                                            *)
(***************************************************************************)
\* Both keys are configured and differ
TwoKeys == API_KEY # NoKey /\ API_KEY1 # NoKey /\ API_KEY # API_KEY1

Configured == {API_KEY, API_KEY1} \ {NoKey}

\* The keys of the requests issued so far by the logical request, in order
AttemptKeys ==
    [i \in 1..Len(log) |-> log[i].key]
        \o (IF pc = "wait" THEN <<current_api_key>> ELSE <<>>)

LastResp == log[Len(log)].resp

\* The response is a failure: it does not take the success path
Failed(r) == r.kind = "json" /\ ~(r.status = 200 /\ r.choices # "absent")

\* A failure whose error object carries the given code
FailedWithCode(r, cd) == Failed(r) /\ r.error = "dict" /\ r.code = cd

MessageHas(r, sub) == r.message.t = "str" /\ Contains(lower(r.message.v), sub)

\* A 429 failure whose message names the quota
QuotaFailure(r) == FailedWithCode(r, 429) /\ MessageHas(r, <<"q","u","o","t","a">>)

\* HTTP 200 with a non-empty, unmarked string content and no error field
CleanSuccess(r) ==
    /\ r.kind = "json" /\ r.status = 200 /\ r.choices = "ok" /\ r.error = "absent"
    /\ r.content.t = "str" /\ Len(r.content.v) > 0
    /\ ~Contains(r.content.v, <<ErrorMarker>>)

IsErrorTagged(v) == v.t = "str" /\ Contains(v.v, <<ErrorMarker>>)

IsText(v) == v.t = "str" /\ Len(v.v) > 0 /\ ~Contains(v.v, <<ErrorMarker>>)

(***************************************************************************)
(* Properties                                                              *)
(***************************************************************************)
\* C1: when the first attempt, made with API_KEY, fails with a 429 quota
\* error and the retry with API_KEY1 succeeds, the call returns the text obtained with the
\* second key (for an extractor, that very text), not an error result.
C1_RetriedTextReturned ==
    (/\ pc = "done" /\ Len(log) = 2 /\ TwoKeys
     /\ QuotaFailure(log[1].resp)
     /\ log[1].key = API_KEY /\ log[2].key = API_KEY1
     /\ CleanSuccess(log[2].resp))
    => /\ IsText(result)
       /\ fn \in Extractors => result = log[2].resp.content

\* C2: with two configured keys, once every configured key has answered 429
\* (quota) within the logical request, the request ends with the all-keys-exhausted error
\* instead of rotating and retrying again.
C2_ExhaustionEndsRequest ==
    [][(/\ pc = "wait" /\ TwoKeys
        /\ Len(log') = Len(log) + 1
        /\ \A i \in 1..Len(log') : QuotaFailure(log'[i].resp)
        /\ Configured \subseteq {log'[i].key : i \in 1..Len(log')})
       => (pc' = "done" /\ "all_exhausted" \in notices')]_vars

\* C3: within one logical request no key is attempted a second time, so
\* with two configured keys at most two requests are issued.
C3_NoKeyAttemptedTwice ==
    TwoKeys =>
        /\ Len(AttemptKeys) <= Cardinality(Configured)
        /\ \A i, j \in 1..Len(AttemptKeys) :
               i # j => AttemptKeys[i] # AttemptKeys[j]

\* C4: when the request issued with the first key receives a 429 error, a
\* next attempt of the logical request is issued, with the second key.
C4_Next429AttemptUsesSecondKey ==
    (/\ TwoKeys /\ Len(log) >= 1
     /\ log[1].key = API_KEY
     /\ FailedWithCode(log[1].resp, 429))
    => (Len(AttemptKeys) >= 2 /\ AttemptKeys[2] = API_KEY1)

\* C5: a failed response is retried with the other key whenever its error
\* code is 429, or its message contains "quota", or its message contains
\* "rate limit"; each alone suffices.
C5_EachConditionRetries ==
    (/\ TwoKeys /\ Len(log) >= 1
     /\ Failed(log[1].resp) /\ log[1].resp.error = "dict"
     /\ \/ log[1].resp.code = 429
        \/ MessageHas(log[1].resp, <<"q","u","o","t","a">>)
        \/ MessageHas(log[1].resp, <<"r","a","t","e"," ","l","i","m","i","t">>))
    => (Len(AttemptKeys) >= 2 /\ AttemptKeys[2] # AttemptKeys[1])

C7_NonRetryableEndsRequest ==
    \A i \in 1..Len(log) :
        (\E cd \in {400, 403, 500, 404} : FailedWithCode(log[i].resp, cd)) =>
            /\ i = Len(log) /\ pc = "done"
            /\ current_api_key = log[i].key
            /\ Len(AttemptKeys) = i
            /\ IsErrorTagged(result)

\* Witness of C7: a server error has ended a request while another key was
\* available to switch to.
C7_Witness ==
    /\ pc = "done" /\ TwoKeys /\ Len(log) = 1
    /\ FailedWithCode(LastResp, 500)
    /\ current_api_key = API_KEY

\* C8: whatever the outcome of the HTTP call, the entry point returns a
\* string that is a populated text or carries the error marker.
C8_AlwaysTextOrTaggedError ==
    pc = "done" => (IsText(result) \/ IsErrorTagged(result))

\* C9: a call returns model text only when the HTTP status is 200 and
\* choices[0].message.content is a non-empty string.
C9_TextOnlyOn200 ==
    (pc = "done" /\ IsText(result)) =>
        /\ LastResp.kind = "json" /\ LastResp.status = 200
        /\ LastResp.choices = "ok"
        /\ LastResp.content.t = "str" /\ Len(LastResp.content.v) > 0

\* C10 (as claimed): an answer that contains a category name, possibly
\* inside other text, resolves to a category it contains.
C10_SubstringResolution ==
    (/\ pc = "done" /\ fn = Classifier /\ Len(log) = 1
     /\ CleanSuccess(LastResp)
     /\ \E c \in Categories : Contains(upper(LastResp.content.v), c))
    => \E c \in Categories :
           result = Str(c) /\ Contains(upper(LastResp.content.v), c)

\* C10 (amended): the classifier resolves by equality after trimming and
\* uppercasing: it returns a category only when the trimmed, uppercased
\* answer equals that category's name, it does return it for such an answer
\* received at the first attempt, and an answer that only contains a
\* category name inside other text is not resolved to a category.
C10_ExactResolution ==
    (/\ pc = "done" /\ fn = Classifier /\ Len(log) >= 1
     /\ LastResp.kind = "json" /\ LastResp.choices = "ok"
     /\ LastResp.content.t = "str")
    => LET answer == LastResp.content.v
       IN  /\ \A c \in Categories :
                  result = Str(c) => upper(strip(answer)) = c
           /\ (Len(log) = 1 /\ CleanSuccess(LastResp))
                  => IF upper(strip(answer)) \in Categories
                     THEN result = Str(upper(strip(answer)))
                     ELSE result \notin {Str(c) : c \in Categories}

\* Witness of C10: an answer containing CYLINDER inside other text was
\* received and returned unresolved.
C10_Witness ==
    /\ pc = "done" /\ fn = Classifier /\ Len(log) = 1
    /\ CleanSuccess(LastResp)
    /\ Contains(upper(LastResp.content.v), CYLINDER)
    /\ upper(strip(LastResp.content.v)) # CYLINDER
    /\ result = LastResp.content

(***************************************************************************)
(* One extraction followed through normalisation                           *)
(***************************************************************************)
\* A line of the answer: the text before the separator, whether there is a
\* separator, the text after it.  kind and num describe a temperature:
\* "to" (A TO B unit), "pm" (-A unit +B unit), "scalar" (N unit), with num
\* the text of B or N; other lines are "plain".
Line(key, sep, value, kind, num) ==
    [key |-> key, sep |-> sep, value |-> value, kind |-> kind, num |-> num]

PlainLines ==
    {Line(<<"F","L","U","I","D">>, TRUE, <<" ","H","L","P">>, "plain", <<>>),
     Line(<<"F","l","u","i","d">>, TRUE, <<" ","h","l","p">>, "plain", <<>>),
     Line(<<"F","L","U","I","D">>, TRUE, <<" ","O","I","L">>, "plain", <<>>),
     Line(<<"M","O","U","N","T","I","N","G">>, TRUE, <<" ","H","L","P">>, "plain", <<>>),
     Line(<<"M","O","U","N","T","I","N","G">>, TRUE, <<" ","[","V","a","l","u","e","]">>, "plain", <<>>),
     Line(<<"R","O","D"," ","E","N","D">>, TRUE, <<" ","x"," ","[","V","A","L","U","E","S","]"," ","y">>, "plain", <<>>),
     Line(<<"M","A","K","E">>, TRUE, <<" ","X">>, "plain", <<>>),
     Line(<<"M","A","K","E">>, TRUE, <<>>, "plain", <<>>),
     Line(<<"M","A","K","E">>, TRUE, <<" ","[","v","a","l","u","e","]">>, "plain", <<>>),
     Line(<<"D","R","A","W","I","N","G"," ","N","U","M","B","E","R">>, TRUE, <<" ","D",":","1">>, "plain", <<>>),
     Line(<<" ","m","o","d","e","l"," ","n","o"," ">>, TRUE, <<" "," ","M","1"," "," ">>, "plain", <<>>),
     Line(<<"n","o","t","e">>, FALSE, <<>>, "plain", <<>>),
     Line(<<ErrorMarker>> \o <<" ","b","a","d">>, FALSE, <<>>, "plain", <<>>)}

TempLine(value, kind, num) ==
    Line(<<"O","P","E","R","A","T","I","N","G"," ","T","E","M","P","E","R","A","T","U","R","E">>, TRUE, value, kind, num)

TempLines ==
    {TempLine(<<" ","4","0"," ","T","O"," ","5","0"," ","D","E","G"," ","C">>, "to", <<"5","0">>),
     TempLine(<<" ","-","1","0"," ","T","O"," ","6","0",".","5","*","C">>, "to", <<"6","0",".","5">>),
     TempLine(<<" ","4","0"," ","t","o"," ","5","0"," ","d","e","g"," ","c">>, "to", <<"5","0">>),
     TempLine(<<" ","-","1","0","*","C"," ","+","6","0","*","C">>, "pm", <<"6","0">>),
     TempLine(<<" ","-","1","0"," ","D","E","G"," ","C"," ","+","6","0",".","5"," ","D","E","G"," ","C">>, "pm", <<"6","0",".","5">>),
     TempLine(<<" ","6","0"," ","D","E","G"," ","C">>, "scalar", <<"6","0">>),
     TempLine(<<" ","6","0",".","5","*","C">>, "scalar", <<"6","0",".","5">>),
     TempLine(<<" ","6","0">>, "scalar", <<"6","0">>),
     TempLine(<<" ","-","1","0"," ","D","E","G"," ","C">>, "scalar", <<"-","1","0">>),
     TempLine(<<" ","-","1","0","*","C">>, "scalar", <<"-","1","0">>)}

SampleLines == PlainLines \cup TempLines

\* The largest number of lines of an answer
MaxLines == 2

LineText(l) == IF l.sep THEN l.key \o <<":">> \o l.value ELSE l.key

\* The answer of the model made of the lines
RECURSIVE RawText(_)
RawText(lines) ==
    IF Len(lines) = 1 THEN LineText(lines[1])
    ELSE LineText(lines[1]) \o <<"\n">> \o RawText(Tail(lines))

\* main, lines 1434-1443: the extractor called for a drawing type
AnalyzeFor(dt) ==
    IF dt = CYLINDER THEN CylinderExtractor
    ELSE IF dt = VALVE THEN "analyze_valve_image"
    ELSE IF dt = GEARBOX THEN "analyze_gearbox_image"
    ELSE IF dt = NUT THEN "analyze_nut_image"
    ELSE IF dt = LIFTING_RAM THEN "analyze_lifting_ram_image"
    ELSE "none"

\* main, line 1445: result and the marker not in result
ExtractionSucceeded(r) ==
    r.t = "str" /\ r.v # <<>> /\ ~Contains(r.v, <<ErrorMarker>>)

InitNorm ==
    /\ API_KEY = "keyA" /\ API_KEY1 = NoKey /\ current_api_key = "keyA"
    /\ pc = "off" /\ fn = Classifier /\ log = <<>>
    /\ result = None /\ notices = {}
    /\ MainOff
    /\ ReviewOff
    /\ n_cat \in Categories
    /\ n_lines \in UNION {[1..n -> SampleLines] : n \in 1..MaxLines}
    /\ n_stage = "answered"
    /\ n_result = None
    /\ parsed_results = <<>>

\* The extractor of the category returns, the answer being the content of
\* a response on the success path
NormExtract ==
    /\ n_stage = "answered"
    /\ n_result' = EntryPoint(AnalyzeFor(n_cat), Str(RawText(n_lines)))
    /\ n_stage' = "returned"
    /\ UNCHANGED <<n_cat, n_lines, parsed_results, dvars, mvars, rvars>>

\* main, lines 1445-1447: a successful result is parsed
NormParse ==
    /\ n_stage = "returned"
    /\ ExtractionSucceeded(n_result)
    /\ parsed_results' = parse_ai_response(n_result.v)
    /\ n_stage' = "parsed"
    /\ UNCHANGED <<n_cat, n_lines, n_result, dvars, mvars, rvars>>

\* main, line 1484: any other result is a failure
NormFail ==
    /\ n_stage = "returned"
    /\ ~ExtractionSucceeded(n_result)
    /\ n_stage' = "failed"
    /\ UNCHANGED <<n_cat, n_lines, n_result, parsed_results, dvars, mvars, rvars>>

NextNorm == NormExtract \/ NormParse \/ NormFail

SpecNorm == InitNorm /\ [][NextNorm]_vars

\* The field a line names
NormKey(l) == upper(strip(l.key))

\* Line i is the last line of the answer that names its field
LastOfKey(i) ==
    /\ n_lines[i].sep
    /\ \A j \in (i + 1)..Len(n_lines) :
           ~(n_lines[j].sep /\ NormKey(n_lines[j]) = NormKey(n_lines[i]))

Fields(dt) == {get_parameters_for_type(dt)[i] :
                  i \in 1..Len(get_parameters_for_type(dt))}

\* main, line 1461: the field counts as extracted
Extracted(d, key) == strip(DictGet(d, key, <<>>)) # <<>>

PlaceholderToken(value) ==
    \/ Contains(lower(value), <<"[","v","a","l","u","e","]">>)
    \/ Contains(lower(value), <<"[","v","a","l","u","e","s","]">>)

C14_PlaceholderIsEmpty ==
    n_stage = "parsed" =>
        \A i \in 1..Len(n_lines) :
            (LastOfKey(i) /\ PlaceholderToken(n_lines[i].value)) =>
                /\ DictHas(parsed_results, NormKey(n_lines[i]))
                /\ DictGet(parsed_results, NormKey(n_lines[i]), <<"?">>) = <<>>
                /\ ~Extracted(parsed_results, NormKey(n_lines[i]))

\* Witness of C14: a value that contains [VALUES] inside other text was
\* parsed for a category without clean-up.
C14_Witness ==
    /\ n_stage = "parsed" /\ n_cat = GEARBOX /\ Len(n_lines) = 1
    /\ n_lines[1].value = <<" ","x"," ","[","V","A","L","U","E","S","]"," ","y">>
    /\ DictGet(parsed_results, <<"R","O","D"," ","E","N","D">>, <<"?">>) = <<>>

\* C15: for a cylinder, a temperature that is a range (A TO B unit, or
\* -A unit +B unit) becomes its upper bound B followed by " DEG C".
C15_RangeKeepsUpperBound ==
    (n_stage = "parsed" /\ n_cat = CYLINDER) =>
        \A i \in 1..Len(n_lines) :
            (LastOfKey(i) /\ n_lines[i].kind \in {"to", "pm"}) =>
                DictGet(parsed_results, F_OPERATING_TEMPERATURE, <<>>)
                    = n_lines[i].num \o <<" ","D","E","G"," ","C">>

\* Witness of C15: "40 TO 50 DEG C" has become "50 DEG C".
C15_Witness ==
    /\ n_stage = "parsed" /\ n_cat = CYLINDER /\ Len(n_lines) = 1
    /\ n_lines[1].value = <<" ","4","0"," ","T","O"," ","5","0"," ","D","E","G"," ","C">>
    /\ DictGet(parsed_results, F_OPERATING_TEMPERATURE, <<>>) = <<"5","0"," ","D","E","G"," ","C">>

\* C16: for a cylinder, a scalar temperature N unit, negative ones
\* included, keeps its number: it becomes N followed by " DEG C".
C16_ScalarKeepsNumber ==
    (n_stage = "parsed" /\ n_cat = CYLINDER) =>
        \A i \in 1..Len(n_lines) :
            (LastOfKey(i) /\ n_lines[i].kind = "scalar") =>
                DictGet(parsed_results, F_OPERATING_TEMPERATURE, <<>>)
                    = n_lines[i].num \o <<" ","D","E","G"," ","C">>

\* C17 (as claimed): for a cylinder, the fluid value HLP becomes
\* HYD. OIL MINERAL and every other value of the fluid field, and every
\* value of another field (the temperature aside), is kept as parsed.
C17_OnlyExactHlpReplaced ==
    (n_stage = "parsed" /\ n_cat = CYLINDER) =>
        \A i \in 1..Len(n_lines) :
            (/\ LastOfKey(i) /\ ~PlaceholderToken(n_lines[i].value)
             /\ NormKey(n_lines[i]) # F_OPERATING_TEMPERATURE) =>
                DictGet(parsed_results, NormKey(n_lines[i]), <<"?">>)
                    = IF NormKey(n_lines[i]) = F_FLUID
                         /\ strip(n_lines[i].value) = <<"H","L","P">>
                      THEN HydOilMineral
                      ELSE strip(n_lines[i].value)

\* C17 (amended): the fluid value that equals HLP in any letter case becomes
\* HYD. OIL MINERAL; every other value of the fluid field, and every value
\* of another field (the temperature aside), is kept as parsed.
C17_HlpAnyCaseReplaced ==
    (n_stage = "parsed" /\ n_cat = CYLINDER) =>
        \A i \in 1..Len(n_lines) :
            (/\ LastOfKey(i) /\ ~PlaceholderToken(n_lines[i].value)
             /\ NormKey(n_lines[i]) # F_OPERATING_TEMPERATURE) =>
                DictGet(parsed_results, NormKey(n_lines[i]), <<"?">>)
                    = IF NormKey(n_lines[i]) = F_FLUID
                         /\ upper(strip(n_lines[i].value)) = <<"H","L","P">>
                      THEN HydOilMineral
                      ELSE strip(n_lines[i].value)

\* Witness of C17: the fluid HLP was replaced while the mounting HLP of the
\* same answer was kept.
C17_Witness ==
    /\ n_stage = "parsed" /\ n_cat = CYLINDER /\ Len(n_lines) = 2
    /\ n_lines[1].key = <<"M","O","U","N","T","I","N","G">> /\ n_lines[1].value = <<" ","H","L","P">>
    /\ n_lines[2].key = <<"F","L","U","I","D">> /\ n_lines[2].value = <<" ","H","L","P">>
    /\ DictGet(parsed_results, F_FLUID, <<>>) = HydOilMineral
    /\ DictGet(parsed_results, F_MOUNTING, <<>>) = <<"H","L","P">>

(***************************************************************************)
(* The session of main: custom products and the table of drawings          *)
(***************************************************************************)
\* The largest number of images whose processing begins
MaxDrawings == 2

\* The largest number of parameters added to a custom product
MaxParams == 1

StatusProcessing == "Processing.."

StatusCompleted == "Completed"

StatusNeedsReview == "Needs Review!"

StatusFailed == "Failed"

DigitOf(d) ==
    CASE d = 0 -> "0" [] d = 1 -> "1" [] d = 2 -> "2" [] d = 3 -> "3"
      [] d = 4 -> "4" [] d = 5 -> "5" [] d = 6 -> "6" [] d = 7 -> "7"
      [] d = 8 -> "8" [] d = 9 -> "9"

\* str of a natural number inside an f-string
RECURSIVE Decimal(_)
Decimal(n) ==
    IF n < 10 THEN <<DigitOf(n)>>
    ELSE Decimal(n \div 10) \o <<DigitOf(n % 10)>>

\* RoundedPercent cutting the fraction off
RoundedPercent_truncates(m, n) == (100 * m) \div n

\* The number printed by f"{(m / n * 100):.0f}": the nearest integer, a
\* half going to the even one
RoundedPercent(m, n) ==
    LET q == (100 * m) \div n
        r == (100 * m) % n
    IN  IF 2 * r < n THEN q
        ELSE IF 2 * r > n THEN q + 1
        ELSE IF q % 2 = 0 THEN q ELSE q + 1

\* Custom products, lines 1292-1329
ProductNames == {<<"p","u","m","p">>}

ParamNames == {<<"F","L","O","W">>}

ParamUnits == {<<"L">>}

\* f"{param_name} [{param_unit}]" if param_unit else param_name
ParamWithUnit(param_name, param_unit) ==
    IF param_unit # <<>>
    THEN param_name \o <<" ", "[">> \o param_unit \o <<"]">>
    ELSE param_name

\* The value of a product in the registry: the list the parameters are
\* added to, then the dictionary with 'parameters' and 'prompt'
Product(saved, parameters, prompt) ==
    [saved |-> saved, parameters |-> parameters, prompt |-> prompt]

NoProduct == Product(FALSE, <<>>, <<>>)

\* Lines 1323-1324: one line of the prompt for each parameter
RECURSIVE PromptLines(_)
PromptLines(parameters) ==
    IF parameters = <<>> THEN <<>>
    ELSE parameters[1] \o <<":"," ","[","v","a","l","u","e","]","\n">> \o PromptLines(Tail(parameters))

\* Lines 1316-1324
PromptFor(new_product_name, parameters) ==
    <<"A","n","a","l","y","z","e"," ","t","h","i","s"," ">> \o lower(new_product_name)
    \o <<" ","d","r","a","w","i","n","g"," ","a","n","d"," ","e","x","t","r","a","c","t"," ","t","h","e"," ","f","o","l","l","o","w","i","n","g"," ","p","a","r","a","m","e","t","e","r","s",".","\n">>
    \o <<"S","T","R","I","C","T"," ","R","U","L","E","S",":","\n">>
    \o <<"1",")"," ","I","f"," ","a"," ","v","a","l","u","e"," ","i","s"," ","m","i","s","s","i","n","g"," ","o","r"," ","u","n","c","l","e","a","r",","," ","r","e","t","u","r","n"," ","a","n"," ","e","m","p","t","y"," ","s","t","r","i","n","g","."," ","D","O"," ","N","O","T"," ","e","s","t","i","m","a","t","e"," ","a","n","y"," ","v","a","l","u","e","s",".","\n">>
    \o <<"2",")"," ","E","x","t","r","a","c","t"," ","a","n","d"," ","r","e","t","u","r","n"," ","d","a","t","a"," ","i","n"," ","t","h","i","s"," ","f","o","r","m","a","t",":","\n">>
    \o PromptLines(parameters)

\* The row main appends, lines 1417-1423
NewDrawing(dt, suffix) ==
    [DrawingType |-> dt,
     DrawingNo |-> <<"P","r","o","c","e","s","s","i","n","g">> \o suffix,
     ProcessingStatus |-> StatusProcessing,
     ExtractedFieldsCount |-> <<>>,
     ConfidenceScore |-> <<>>]

\* suffix, line 1416, of the files processed: files of one page
Suffixes == {<<>>}

\* The suffix of the image being processed, as the appended row holds it
SuffixOf(row) ==
    SubSeq(row.DrawingNo, Len(<<"P","r","o","c","e","s","s","i","n","g">>) + 1, Len(row.DrawingNo))

LastRow(table) == table[Len(table)]

\* Lines 1448-1453
DrawingNumber(dt, parsed, table_len, suffix) ==
    LET drawing_number ==
            IF dt = VALVE THEN DictGet(parsed, F_MODEL_NO, <<>>)
            ELSE DictGet(parsed, F_DRAWING_NUMBER, <<>>)
    IN  IF drawing_number = <<>> \/ drawing_number = <<"U","n","k","n","o","w","n">>
        THEN dt \o <<"_">> \o Decimal(table_len) \o suffix
        ELSE drawing_number

\* Line 1461
NonEmptyFields(dt, parsed) ==
    LET parameters == get_parameters_for_type(dt)
    IN  Cardinality({i \in 1..Len(parameters) : Extracted(parsed, parameters[i])})

\* Lines 1464-1469
SuccessUpdate(row, dt, parsed, table_len) ==
    LET non_empty_fields == NonEmptyFields(dt, parsed)
        total_fields == Len(get_parameters_for_type(dt))
    IN  [row EXCEPT
            !.DrawingNo = DrawingNumber(dt, parsed, table_len, SuffixOf(row)),
            !.ProcessingStatus =
                IF non_empty_fields = total_fields THEN StatusCompleted
                ELSE StatusNeedsReview,
            !.ExtractedFieldsCount =
                Decimal(non_empty_fields) \o <<"/">> \o Decimal(total_fields),
            !.ConfidenceScore =
                Decimal(RoundedPercent(non_empty_fields, total_fields))
                    \o <<"%">>]

\* Lines 1486-1490
FailureUpdate(row) ==
    [row EXCEPT !.ProcessingStatus = StatusFailed,
                !.ConfidenceScore = <<"0","%">>,
                !.ExtractedFieldsCount = <<"0","/","0">>]

\* SetLastRow writing the first row of the table
SetLastRow_first_row(table, row) == [table EXCEPT ![1] = row]

\* Line 1502: the last row of the table becomes the updated row
SetLastRow(table, row) == [table EXCEPT ![Len(table)] = row]

\* The radio of line 1379
AutoDetect == "Auto Detect"

FromCustomProducts == "From Custom Products"

TypeSelections == {AutoDetect, FromCustomProducts}

\* Lines 1386-1392: the custom types that can be selected
CustomTypes(type_selection) ==
    IF type_selection = FromCustomProducts /\ custom_products # <<>>
    THEN {Str(k) : k \in DictKeys(custom_products)}
    ELSE {None}

\* identify_drawing_type with its three arguments, lines 338-392; v is the
\* value process_api_response returns when a request is made
IdentifyFor(is_custom, custom_type, v) ==
    IF is_custom /\ Truthy(custom_type) THEN Str(upper(custom_type.v))
    ELSE identify_drawing_type(v)

\* Line 1411
ClassificationFailed(dt) == ~Truthy(dt) \/ Contains(dt.v, <<ErrorMarker>>)

\* Values process_api_response returns to the classifier
ClassifierValues ==
    {Str(CYLINDER), Str(TxtValvePadded), Str(GEARBOX), Str(NUT),
     Str(LIFTING_RAM), Str(UNKNOWN), Str(TxtDonut), Str(<<>>), None,
     ApiError(UnknownErrorOccurred)}

\* Answers of the model to an extractor: every expected field filled
\* ("full"), the first line missing, the second empty and the number of the
\* drawing unknown ("partial"), the template sent back ("template")
Patterns == {"full", "partial", "template"}

IsNumberField(dt, field) ==
    IF dt = VALVE THEN field = F_MODEL_NO ELSE field = F_DRAWING_NUMBER

AnswerValue(dt, pattern, i) ==
    LET field == get_parameters_for_type(dt)[i]
    IN  IF pattern = "template" THEN <<"[","v","a","l","u","e","]">>
        ELSE IF pattern = "partial" /\ i = 2 THEN <<>>
        ELSE IF IsNumberField(dt, field)
        THEN (IF pattern = "full" THEN <<"D","1">> ELSE <<"U","n","k","n","o","w","n">>)
        ELSE <<"X">>

RECURSIVE AnswerFrom(_, _, _)
AnswerFrom(dt, pattern, i) ==
    IF i > Len(get_parameters_for_type(dt)) THEN <<>>
    ELSE (IF pattern = "partial" /\ i = 1 THEN <<>>
          ELSE get_parameters_for_type(dt)[i] \o <<":", " ">>
               \o AnswerValue(dt, pattern, i) \o <<"\n">>)
         \o AnswerFrom(dt, pattern, i + 1)

\* Values process_api_response returns to the extractor of a category
ExtractorValues(dt) ==
    {Str(AnswerFrom(dt, p, 1)) : p \in Patterns}
    \cup {Str(<<>>), None, Parts, ApiError(UnknownErrorOccurred)}

\* result of lines 1433-1443
ResultFor(dt, v) ==
    IF AnalyzeFor(dt) = "none" THEN None ELSE EntryPoint(AnalyzeFor(dt), v)

\* The values offered to the extractor main calls for dt, if it calls one
ValuesFor(dt) == IF dt \in Categories THEN ExtractorValues(dt) ELSE {None}

\* parse_ai_response or the scoring raises: the result is a list with an
\* item, or there is nothing to divide by
ScoringRaises(dt, r) ==
    Truthy(r) /\ (r.t = "list" \/ (~Contains(r.v, <<ErrorMarker>>)
                                   /\ get_parameters_for_type(dt) = <<>>))

\* Lines 1554-1557: the row of the table can be displayed; the count of a
\* row that is still in Processing.. has no second part
RowRenders(row) == Contains(row.ExtractedFieldsCount, <<"/">>)

\* The exception that ends a run whose handlers completed: the display of
\* the table, lines 1519-1569, raises on a row it cannot display
RunError(table) ==
    IF \E i \in 1..Len(table) : ~RowRenders(table[i]) THEN IndexErrorText
    ELSE NoError

InitMain ==
    /\ API_KEY = "keyA" /\ API_KEY1 = NoKey /\ current_api_key = "keyA"
    /\ pc = "off" /\ fn = Classifier /\ log = <<>>
    /\ result = None /\ notices = {}
    /\ NormOff
    /\ custom_products = <<>>
    /\ drawings_table = <<>>
    /\ all_results = <<>>
    /\ m_pc = "idle"
    /\ m_drawing_type = None
    /\ m_processed = 0
    /\ m_error = NoError
    /\ ReviewOff

\* "Add Parameter", lines 1292-1298; appending to a saved product raises
AddParameter ==
    /\ m_pc = "idle"
    /\ \E new_product_name \in ProductNames, param_name \in ParamNames,
          param_unit \in ParamUnits :
          LET product == DictGet(custom_products, new_product_name, NoProduct)
          IN  /\ ~product.saved
              /\ Len(product.parameters) < MaxParams
              /\ custom_products' =
                     DictSet(custom_products, new_product_name,
                             Product(FALSE,
                                     Append(product.parameters,
                                            ParamWithUnit(param_name, param_unit)),
                                     <<>>))
    /\ UNCHANGED <<drawings_table, all_results, m_pc, m_drawing_type,
                   m_processed, dvars, nvars, rvars>>
    /\ m_error' = RunError(drawings_table')

\* Line 1297 on a saved product: a dictionary has no append
AddParameterRaises ==
    /\ m_pc = "idle"
    /\ \E new_product_name \in ProductNames :
          DictGet(custom_products, new_product_name, NoProduct).saved
    /\ m_error' = AttributeErrorText
    /\ UNCHANGED <<custom_products, drawings_table, all_results, m_pc,
                   m_drawing_type, m_processed, dvars, nvars, rvars>>

\* "Save New Product", lines 1306-1329; saving a saved product raises
SaveNewProduct ==
    /\ m_pc = "idle"
    /\ \E new_product_name \in ProductNames :
          /\ DictHas(custom_products, new_product_name)
          /\ LET product == DictGet(custom_products, new_product_name, NoProduct)
                 parameters == Append(product.parameters, F_DRAWING_NUMBER)
             IN  /\ ~product.saved
                 /\ custom_products' =
                        DictSet(custom_products, new_product_name,
                                Product(TRUE, parameters,
                                        PromptFor(new_product_name, parameters)))
    /\ UNCHANGED <<drawings_table, all_results, m_pc, m_drawing_type,
                   m_processed, dvars, nvars, rvars>>
    /\ m_error' = RunError(drawings_table')

\* Line 1310 on a saved product: a dictionary has no append
SaveNewProductRaises ==
    /\ m_pc = "idle"
    /\ \E new_product_name \in ProductNames :
          DictGet(custom_products, new_product_name, NoProduct).saved
    /\ m_error' = AttributeErrorText
    /\ UNCHANGED <<custom_products, drawings_table, all_results, m_pc,
                   m_drawing_type, m_processed, dvars, nvars, rvars>>

\* Lines 1405-1413: the classification of an image fails, main goes on
\* with the next image
ClassifyDrops ==
    /\ m_pc = "idle"
    /\ m_processed < MaxDrawings
    /\ \E type_selection \in TypeSelections, v \in ClassifierValues :
          \E custom_type \in CustomTypes(type_selection) :
              ClassificationFailed(
                  IdentifyFor(type_selection = FromCustomProducts, custom_type, v))
    /\ m_processed' = m_processed + 1
    /\ UNCHANGED <<custom_products, drawings_table, all_results, m_pc,
                   m_drawing_type, dvars, nvars, rvars>>
    /\ m_error' = RunError(drawings_table')

\* Lines 1405-1429: the image has a drawing type, its row is appended
ClassifyAppends ==
    /\ m_pc = "idle"
    /\ m_processed < MaxDrawings
    /\ \E type_selection \in TypeSelections, v \in ClassifierValues,
          suffix \in Suffixes :
          \E custom_type \in CustomTypes(type_selection) :
              \E dt \in {IdentifyFor(type_selection = FromCustomProducts,
                                     custom_type, v)} :
                  /\ ~ClassificationFailed(dt)
                  /\ m_drawing_type' = dt
                  /\ drawings_table' =
                         Append(drawings_table, NewDrawing(dt.v, suffix))
    /\ m_processed' = m_processed + 1
    /\ m_pc' = "analyzing"
    /\ UNCHANGED <<custom_products, all_results, m_error, dvars, nvars, rvars>>

\* Lines 1432-1469 and 1502: the extraction gave a text, the row is scored
ExtractSucceeds ==
    /\ m_pc = "analyzing"
    /\ \E v \in ValuesFor(m_drawing_type.v) :
          \E r \in {ResultFor(m_drawing_type.v, v)} :
              /\ ExtractionSucceeded(r)
              /\ ~ScoringRaises(m_drawing_type.v, r)
              /\ \E parsed \in {parse_ai_response(r.v)} :
                     \E row \in {SuccessUpdate(LastRow(drawings_table),
                                               m_drawing_type.v, parsed,
                                               Len(drawings_table))} :
                         /\ all_results' =
                                DictSet(all_results, row.DrawingNo, parsed)
                         /\ drawings_table' = SetLastRow(drawings_table, row)
    /\ m_pc' = "idle"
    /\ UNCHANGED <<custom_products, m_drawing_type, m_processed, dvars, nvars, rvars>>
    /\ m_error' = RunError(drawings_table')

\* Lines 1484-1502: no extractor for the type, or no text, or an error
ExtractFails ==
    /\ m_pc = "analyzing"
    /\ \E v \in ValuesFor(m_drawing_type.v) :
          \E r \in {ResultFor(m_drawing_type.v, v)} :
              ~Truthy(r) \/ (r.t = "str" /\ Contains(r.v, <<ErrorMarker>>))
    /\ drawings_table' =
           SetLastRow(drawings_table, FailureUpdate(LastRow(drawings_table)))
    /\ m_pc' = "idle"
    /\ UNCHANGED <<custom_products, all_results, m_drawing_type, m_processed,
                   dvars, nvars, rvars>>
    /\ m_error' = RunError(drawings_table')

\* Lines 1447 and 1503-1504: the exception skips the update of the row
ExtractRaises ==
    /\ m_pc = "analyzing"
    /\ \E v \in ValuesFor(m_drawing_type.v) :
          \E r \in {ResultFor(m_drawing_type.v, v)} :
              ScoringRaises(m_drawing_type.v, r)
    /\ m_pc' = "idle"
    /\ UNCHANGED <<custom_products, drawings_table, all_results,
                   m_drawing_type, m_processed, dvars, nvars, rvars>>
    /\ m_error' = RunError(drawings_table')

NextMain ==
    \/ AddParameter
    \/ AddParameterRaises
    \/ SaveNewProduct
    \/ SaveNewProductRaises
    \/ ClassifyDrops
    \/ ClassifyAppends
    \/ ExtractSucceeds
    \/ ExtractFails
    \/ ExtractRaises

SpecMain == InitMain /\ [][NextMain]_vars

\* The categories that are known: the built-in ones and the names in the
\* registry of custom products
KnownCategories ==
    Categories \cup {upper(k) : k \in DictKeys(custom_products)}

\* dt is the category of a saved custom product and of no built-in extractor
SavedCustomCategory(dt) ==
    /\ dt \notin Categories
    /\ \E k \in DictKeys(custom_products) :
           upper(k) = dt /\ DictGet(custom_products, k, NoProduct).saved

TerminalStatuses == {StatusCompleted, StatusNeedsReview, StatusFailed}

Abs(x) == IF x < 0 THEN -x ELSE x

\* C11: the classifier's result is a known category or an error, so the type
\* of the image being analysed, and the type of every entry of the table, is
\* a known category.
C11_OnlyKnownCategoriesEntered ==
    /\ m_pc = "analyzing" => m_drawing_type.v \in KnownCategories
    /\ \A i \in 1..Len(drawings_table) :
           drawings_table[i].DrawingType \in KnownCategories

\* C12: an image processed under a saved custom category is extracted: main
\* calls an extractor for it.
C12_CustomCategoryExtracted ==
    (m_pc = "analyzing" /\ SavedCustomCategory(m_drawing_type.v)) =>
        AnalyzeFor(m_drawing_type.v) # "none"

\* C18: the step that ends a successful extraction leaves in the entry, with
\* m the number of expected fields of the category whose value in the stored
\* record is not empty and n the number of expected fields: the status
\* Completed exactly when m = n and Needs Review! otherwise, the count
\* "m/n", and as confidence the integer nearest to 100*m/n followed by "%".
C18_ScoreFollowsFieldCount ==
    [][(/\ m_pc = "analyzing" /\ m_pc' = "idle"
        /\ LastRow(drawings_table').ProcessingStatus
               \in {StatusCompleted, StatusNeedsReview})
       => \E row \in {LastRow(drawings_table')} :
          \E record \in {DictGet(all_results', row.DrawingNo, <<>>)},
             fields \in {get_parameters_for_type(row.DrawingType)} :
          \E n \in {Len(fields)},
             m \in {Cardinality({i \in 1..Len(fields) :
                        strip(DictGet(record, fields[i], <<>>)) # <<>>})} :
              /\ n > 0
              /\ row.ProcessingStatus = StatusCompleted <=> m = n
              /\ row.ExtractedFieldsCount = Decimal(m) \o <<"/">> \o Decimal(n)
              /\ \E c \in 0..100 :
                     /\ 2 * Abs(100 * m - c * n) <= n
                     /\ row.ConfidenceScore = Decimal(c) \o <<"%">>]_vars

\* Witness of C18: a cylinder with 9 of its 11 expected fields extracted has
\* the status Needs Review!, the count 9/11 and the confidence 82%.
C18_Witness ==
    /\ m_pc = "idle" /\ drawings_table # <<>>
    /\ LastRow(drawings_table).DrawingType = CYLINDER
    /\ LastRow(drawings_table).ProcessingStatus = StatusNeedsReview
    /\ LastRow(drawings_table).ExtractedFieldsCount = <<"9","/","1","1">>
    /\ LastRow(drawings_table).ConfidenceScore = <<"8","2","%">>

\* C19: every image whose processing began and failed, at classification or
\* at extraction, has an entry with the status Failed, the confidence 0% and
\* the count 0/0: between two images the table has one entry for each image
\* processed and every entry that is not scored is such a Failed entry.
C19_EveryFailureRecorded ==
    m_pc = "idle" =>
        /\ Len(drawings_table) = m_processed
        /\ \A i \in 1..Len(drawings_table) :
               drawings_table[i].ProcessingStatus
                   \notin {StatusCompleted, StatusNeedsReview}
               => /\ drawings_table[i].ProcessingStatus = StatusFailed
                  /\ drawings_table[i].ConfidenceScore = <<"0","%">>
                  /\ drawings_table[i].ExtractedFieldsCount = <<"0","/","0">>

\* C20: when the processing of an image has ended no entry is in the state
\* Processing, and no step changes the status of an entry that is Completed,
\* Needs Review! or Failed.
C20_ProcessingReachesTerminal ==
    /\ [](m_pc = "idle" =>
             \A i \in 1..Len(drawings_table) :
                 drawings_table[i].ProcessingStatus # StatusProcessing)
    /\ [][\A i \in 1..Len(drawings_table) :
              drawings_table[i].ProcessingStatus \in TerminalStatuses
              => /\ i <= Len(drawings_table')
                 /\ drawings_table'[i].ProcessingStatus
                        = drawings_table[i].ProcessingStatus]_vars

\* C27: whenever a request can be sent or is in flight the current key is
\* one of the configured keys, and every request issued was sent with a
\* configured key.
C27_CredentialConfigured ==
    /\ pc \in {"idle", "wait"} => current_api_key \in Configured
    /\ \A i \in 1..Len(AttemptKeys) : AttemptKeys[i] \in Configured

\* The number of occurrences of x in the sequence q
Occurrences(q, x) == Cardinality({i \in 1..Len(q) : q[i] = x})

\* C29: no Add Parameter or Save New Product ends with an error, and every
\* saved product's parameter list contains DRAWING NUMBER exactly once.
C29_ProductActionsComplete ==
    /\ m_error # AttributeErrorText
    /\ \A i \in 1..Len(custom_products) :
           custom_products[i].v.saved =>
               Occurrences(custom_products[i].v.parameters, F_DRAWING_NUMBER) = 1

\* C25: every entry of the table has a non-empty identifier, and no two
\* entries have the same identifier.
C25_IdentifiersUnique ==
    \A i \in 1..Len(drawings_table) :
        /\ drawings_table[i].DrawingNo # <<>>
        /\ \A j \in 1..Len(drawings_table) :
               i # j => drawings_table[i].DrawingNo # drawings_table[j].DrawingNo

\* C26: a step appends at most one entry, the entry of the image whose
\* extraction starts, in the state Processing; it leaves every other entry
\* as it is, the only entry that changes being the last one while its image
\* is being analysed; no entry is removed, so two entries with the same
\* identifier are both retained.
C26_TableAppendOnly ==
    [][/\ Len(drawings_table') \in {Len(drawings_table), Len(drawings_table) + 1}
       /\ \A i \in 1..Len(drawings_table) :
              \/ drawings_table'[i] = drawings_table[i]
              \/ /\ i = Len(drawings_table)
                 /\ Len(drawings_table') = Len(drawings_table)
                 /\ m_pc = "analyzing"
                 /\ drawings_table[i].ProcessingStatus = StatusProcessing
       /\ Len(drawings_table') = Len(drawings_table) + 1
              => /\ m_pc = "idle" /\ m_pc' = "analyzing"
                 /\ LastRow(drawings_table').ProcessingStatus = StatusProcessing]_vars

\* Witness of C26: a second drawing numbered D1 was processed and the table
\* holds both entries.
C26_Witness ==
    /\ m_pc = "idle" /\ Len(drawings_table) = 2
    /\ drawings_table[1].DrawingNo = <<"D","1">>
    /\ drawings_table[2].DrawingNo = <<"D","1">>
    /\ drawings_table[1].ProcessingStatus = StatusCompleted
    /\ drawings_table[2].ProcessingStatus = StatusCompleted

(***************************************************************************)
(* The review of a drawing: detail view, corrections and feedback          *)
(***************************************************************************)
\* The rows of the table that have the number
RowsNumbered(table, number) ==
    {i \in 1..Len(table) : table[i].DrawingNo = number}

\* Lines 1615-1617 and 1845-1847: the type of the first row that has the
\* number (a number no row has raises IndexError)
TypeOfDrawing(table, number) ==
    table[CHOOSE i \in RowsNumbered(table, number) :
              \A j \in RowsNumbered(table, number) : i <= j].DrawingType

\* Line 1576: the detail view is displayed, the table having been displayed
DetailShown(sel, results, table) ==
    /\ RunError(table) = NoError
    /\ Truthy(sel)
    /\ DictHas(results, sel.v)

\* Lines 1620-1621: the run that displays the detail view of a drawing
\* creates the dictionary of its edited values
RenderDetail(edited, sel, results, table) ==
    IF DetailShown(sel, results, table) /\ ~DictHas(edited, sel.v)
    THEN DictSet(edited, sel.v, <<>>)
    ELSE edited

\* The edit fields the user types in: the first two expected fields
EditableFields(dt) ==
    {get_parameters_for_type(dt)[i] :
        i \in 1..Len(get_parameters_for_type(dt)) \cap {1, 2}}

\* The largest number of drawings processed before a review
MaxReviewed == 1

\* The largest number of fields the user edits, over all the drawings
MaxEdits == 2

\* The number of edited values kept for the drawings
RECURSIVE EditCount(_)
EditCount(edited) ==
    IF edited = <<>> THEN 0
    ELSE Len(edited[1].v) + EditCount(Tail(edited))

\* The texts the user types: a value, a blank
EditValues == {<<"Y">>, <<" ">>}

\* CollectFeedback that does not skip the blank values
RECURSIVE CollectFeedback_keeps_blank(_, _)
CollectFeedback_keeps_blank(edits, results) ==
    IF edits = <<>> THEN <<>>
    ELSE (IF edits[1].v # DictGet(results, edits[1].k, <<>>)
          THEN <<[k |-> edits[1].k,
                  v |-> [original |-> DictGet(results, edits[1].k, <<>>),
                         corrected |-> edits[1].v]]>>
          ELSE <<>>)
         \o CollectFeedback_keeps_blank(Tail(edits), results)

\* Lines 1724-1730: the corrections that are not blank and differ from the
\* stored value
RECURSIVE CollectFeedback(_, _)
CollectFeedback(edits, results) ==
    IF edits = <<>> THEN <<>>
    ELSE (IF strip(edits[1].v) # <<>>
             /\ edits[1].v # DictGet(results, edits[1].k, <<>>)
          THEN <<[k |-> edits[1].k,
                  v |-> [original |-> DictGet(results, edits[1].k, <<>>),
                         corrected |-> edits[1].v]]>>
          ELSE <<>>)
         \o CollectFeedback(Tail(edits), results)

\* ApplyCorrections that also stores the blank values
RECURSIVE ApplyCorrections_stores_blank(_, _)
ApplyCorrections_stores_blank(results, edits) ==
    IF edits = <<>> THEN results
    ELSE ApplyCorrections_stores_blank(
             DictSet(results, edits[1].k, edits[1].v), Tail(edits))

\* Lines 1733-1735: the values that are not blank are stored
RECURSIVE ApplyCorrections(_, _)
ApplyCorrections(results, edits) ==
    IF edits = <<>> THEN results
    ELSE ApplyCorrections(
             IF strip(edits[1].v) # <<>>
             THEN DictSet(results, edits[1].k, edits[1].v)
             ELSE results,
             Tail(edits))

\* The largest number of packages of feedback submitted
MaxFeedback == 1

\* Line 1830: the category of feedback selected by default
ValueCorrection == "Value Correction"

\* FeedbackPackage that leaves the corrections out
FeedbackPackage_drops_corrections(drawing_number, drawing_type, corrections) ==
    [drawing_number |-> drawing_number,
     drawing_type |-> drawing_type,
     corrections |-> [corrections |-> <<>>,
                      category |-> ValueCorrection,
                      notes |-> <<>>],
     additional_notes |-> <<>>]

\* Lines 551-564: the package appended to the history (the times left out)
FeedbackPackage(drawing_number, drawing_type, corrections) ==
    [drawing_number |-> drawing_number,
     drawing_type |-> drawing_type,
     corrections |-> [corrections |-> corrections,
                      category |-> ValueCorrection,
                      notes |-> <<>>],
     additional_notes |-> <<>>]

\* The drawings reviewed: valves and nuts, answered in full or in part
ReviewClassifierValues == {Str(VALVE), Str(NUT)}

ReviewExtractorValues(dt) ==
    IF dt = VALVE
    THEN {Str(AnswerFrom(dt, "full", 1)), Str(AnswerFrom(dt, "partial", 1))}
    ELSE {Str(AnswerFrom(dt, "full", 1))}

InitReview ==
    /\ API_KEY = "keyA" /\ API_KEY1 = NoKey /\ current_api_key = "keyA"
    /\ pc = "off" /\ fn = Classifier /\ log = <<>>
    /\ result = None /\ notices = {}
    /\ NormOff
    /\ custom_products = <<>>
    /\ drawings_table = <<>>
    /\ all_results = <<>>
    /\ m_pc = "idle"
    /\ m_drawing_type = None
    /\ m_processed = 0
    /\ m_error = NoError
    /\ ReviewOff

\* "Process Drawing", lines 1376-1505, with Auto Detect on a file of one
\* page: the whole run, at whose end its local drawing_type is no more
ProcessDrawing ==
    /\ m_pc = "idle"
    /\ m_processed < MaxReviewed
    /\ \E vc \in ReviewClassifierValues :
          \E dt \in {IdentifyFor(FALSE, None, vc)} :
              /\ ~ClassificationFailed(dt)
              /\ \E ve \in ReviewExtractorValues(dt.v) :
                     \E r \in {ResultFor(dt.v, ve)},
                        table \in {Append(drawings_table, NewDrawing(dt.v, <<>>))} :
                         IF ExtractionSucceeded(r)
                         THEN \E parsed \in {parse_ai_response(r.v)} :
                                  \E row \in {SuccessUpdate(LastRow(table), dt.v,
                                                            parsed, Len(table))} :
                                      /\ all_results' = DictSet(all_results,
                                                                row.DrawingNo, parsed)
                                      /\ drawings_table' = SetLastRow(table, row)
                         ELSE /\ all_results' = all_results
                              /\ drawings_table' =
                                     SetLastRow(table, FailureUpdate(LastRow(table)))
    /\ m_processed' = m_processed + 1
    /\ m_error' = RunError(drawings_table')
    /\ edited_values' = RenderDetail(edited_values, selected_drawing,
                                     all_results', drawings_table')
    /\ UNCHANGED <<custom_products, m_pc, m_drawing_type, selected_drawing,
                   show_feedback_popup, feedback_data, feedback_history,
                   dvars, nvars>>

\* "View" of a row, lines 1567-1569 and 763-764
ViewDrawing ==
    /\ m_pc = "idle"
    /\ \E i \in 1..Len(drawings_table) :
          /\ \A j \in 1..i : RowRenders(drawings_table[j])
          /\ selected_drawing' = Str(drawings_table[i].DrawingNo)
    /\ m_error' = RunError(drawings_table)
    /\ edited_values' = RenderDetail(edited_values, selected_drawing',
                                     all_results, drawings_table)
    /\ UNCHANGED <<custom_products, drawings_table, all_results, m_pc,
                   m_drawing_type, m_processed, show_feedback_popup,
                   feedback_data, feedback_history, dvars, nvars>>

\* "Back to All Drawings", lines 1705-1707
BackToAllDrawings ==
    /\ m_pc = "idle"
    /\ DetailShown(selected_drawing, all_results, drawings_table)
    /\ selected_drawing' = None
    /\ m_error' = NoError
    /\ UNCHANGED <<custom_products, drawings_table, all_results, m_pc,
                   m_drawing_type, m_processed, edited_values,
                   show_feedback_popup, feedback_data, feedback_history,
                   dvars, nvars>>

\* The user types in an edit field, lines 1640-1664
EditField ==
    /\ m_pc = "idle"
    /\ DetailShown(selected_drawing, all_results, drawings_table)
    /\ \E param \in EditableFields(TypeOfDrawing(drawings_table,
                                                 selected_drawing.v)),
          edited_value \in EditValues :
          LET results == DictGet(all_results, selected_drawing.v, <<>>)
              edits == DictGet(edited_values, selected_drawing.v, <<>>)
              current_value == DictGet(edits, param, DictGet(results, param, <<>>))
          IN  /\ edited_value # current_value
              /\ DictHas(edits, param) \/ EditCount(edited_values) < MaxEdits
              /\ edited_values' =
                     DictSet(edited_values, selected_drawing.v,
                             DictSet(edits, param, edited_value))
    /\ m_error' = NoError
    /\ UNCHANGED <<custom_products, drawings_table, all_results, m_pc,
                   m_drawing_type, m_processed, selected_drawing,
                   show_feedback_popup, feedback_data, feedback_history,
                   dvars, nvars>>

\* "Save Changes", lines 1722-1743
SaveChanges ==
    /\ m_pc = "idle"
    /\ DetailShown(selected_drawing, all_results, drawings_table)
    /\ \E results \in {DictGet(all_results, selected_drawing.v, <<>>)},
          edits \in {DictGet(edited_values, selected_drawing.v, <<>>)} :
          \E collected \in {CollectFeedback(edits, results)} :
              /\ all_results' = DictSet(all_results, selected_drawing.v,
                                        ApplyCorrections(results, edits))
              /\ IF collected # <<>>
                 THEN /\ feedback_data' = collected
                      /\ show_feedback_popup' = TRUE
                 ELSE UNCHANGED <<feedback_data, show_feedback_popup>>
    /\ m_error' = NoError
    /\ UNCHANGED <<custom_products, drawings_table, m_pc, m_drawing_type,
                   m_processed, selected_drawing, edited_values,
                   feedback_history, dvars, nvars>>

\* "Submit Feedback", lines 1841-1878 and 544-579
SubmitFeedback ==
    /\ m_pc = "idle"
    /\ RunError(drawings_table) = NoError
    /\ show_feedback_popup
    /\ Len(feedback_history) < MaxFeedback
    /\ selected_drawing.t = "str"
    /\ RowsNumbered(drawings_table, selected_drawing.v) # {}
    /\ feedback_history' =
           Append(feedback_history,
                  FeedbackPackage(selected_drawing,
                                  TypeOfDrawing(drawings_table, selected_drawing.v),
                                  feedback_data))
    /\ show_feedback_popup' = FALSE
    /\ feedback_data' = <<>>
    /\ m_error' = NoError
    /\ UNCHANGED <<custom_products, drawings_table, all_results, m_pc,
                   m_drawing_type, m_processed, selected_drawing,
                   edited_values, dvars, nvars>>

\* "Submit Feedback" when no row has the selected number: the iloc[0] of
\* line 1847 raises before anything is recorded
SubmitFeedbackRaises ==
    /\ m_pc = "idle"
    /\ RunError(drawings_table) = NoError
    /\ show_feedback_popup
    /\ \/ selected_drawing.t # "str"
       \/ RowsNumbered(drawings_table, selected_drawing.v) = {}
    /\ m_error' = IndexErrorText
    /\ UNCHANGED <<custom_products, drawings_table, all_results, m_pc,
                   m_drawing_type, m_processed, rvars, dvars, nvars>>

\* "Cancel", lines 1881-1884
CancelFeedback ==
    /\ m_pc = "idle"
    /\ RunError(drawings_table) = NoError
    /\ show_feedback_popup
    /\ show_feedback_popup' = FALSE
    /\ feedback_data' = <<>>
    /\ m_error' = NoError
    /\ UNCHANGED <<custom_products, drawings_table, all_results, m_pc,
                   m_drawing_type, m_processed, selected_drawing,
                   edited_values, feedback_history, dvars, nvars>>

NextReview ==
    \/ ProcessDrawing
    \/ ViewDrawing
    \/ BackToAllDrawings
    \/ EditField
    \/ SaveChanges
    \/ SubmitFeedback
    \/ SubmitFeedbackRaises
    \/ CancelFeedback

SpecReview == InitReview /\ [][NextReview]_vars


(***************************************************************************)
(* Claims about the review                                                 *)
(***************************************************************************)
\* A step of "Save Changes" that stores a correction
SaveStores ==
    /\ m_processed' = m_processed
    /\ all_results' # all_results

\* The record stored for the selected drawing
SelectedRecord(results) == DictGet(results, selected_drawing.v, <<>>)

\* The row carries the count, the confidence and the status that the rule of
\* lines 1459-1469 gives for the record
RowScored(row, parsed) ==
    /\ row.ExtractedFieldsCount =
           SuccessUpdate(row, row.DrawingType, parsed, 0).ExtractedFieldsCount
    /\ row.ConfidenceScore =
           SuccessUpdate(row, row.DrawingType, parsed, 0).ConfidenceScore
    /\ row.ProcessingStatus =
           SuccessUpdate(row, row.DrawingType, parsed, 0).ProcessingStatus

\* C21 (as claimed): after "Save Changes" has stored corrections, the rows of
\* the corrected drawing carry the count, the confidence and the status
\* recomputed from the corrected record.
C21_SaveRecomputesRow ==
    [][SaveStores =>
          \A i \in RowsNumbered(drawings_table', selected_drawing.v) :
              RowScored(drawings_table'[i], SelectedRecord(all_results'))]_vars

\* int(text.rstrip('%')) of line 1557, for the texts the table holds
RECURSIVE IntOf(_)
IntOf(text) ==
    IF text = <<>> THEN 0
    ELSE IF text[Len(text)] = "%" THEN IntOf(SubSeq(text, 1, Len(text) - 1))
    ELSE 10 * IntOf(SubSeq(text, 1, Len(text) - 1))
         + (CHOOSE d \in 0..9 : DigitOf(d) = text[Len(text)])

\* The number of expected fields the record of the selected drawing fills
SelectedFilled(results, table) ==
    NonEmptyFields(TypeOfDrawing(table, selected_drawing.v),
                   SelectedRecord(results))

\* C22: a step of "Save Changes" that stores corrections never lowers the
\* number of filled fields of the corrected record, never lowers the
\* confidence of a row and never turns a Completed row into Needs Review.
C22_SaveNeverLowers ==
    [][SaveStores =>
          /\ SelectedFilled(all_results', drawings_table')
                 >= SelectedFilled(all_results, drawings_table)
          /\ Len(drawings_table') = Len(drawings_table)
          /\ \A i \in 1..Len(drawings_table) :
                 /\ IntOf(drawings_table'[i].ConfidenceScore)
                        >= IntOf(drawings_table[i].ConfidenceScore)
                 /\ drawings_table[i].ProcessingStatus = StatusCompleted
                        => drawings_table'[i].ProcessingStatus # StatusNeedsReview]_vars

\* A valve whose model number was missing has it filled by a saved correction
C22_Witness ==
    /\ Truthy(selected_drawing)
    /\ DictHas(all_results, selected_drawing.v)
    /\ DictGet(SelectedRecord(all_results), F_MODEL_NO, <<>>) = <<"Y">>
    /\ SelectedFilled(all_results, drawings_table) = 3


\* The edited values kept for the selected drawing
SelectedEdits == DictGet(edited_values, selected_drawing.v, <<>>)

\* value.strip() is empty
Blank(value) == strip(value) = <<>>

\* C23: on a step that processes no drawing and keeps the selection, "Save
\* Changes" among them, a field whose edited value is empty or blank keeps
\* its stored value, and feedback that the step collects has no entry for it.
C23_BlankIgnored ==
    [][(/\ Truthy(selected_drawing)
        /\ selected_drawing' = selected_drawing
        /\ m_processed' = m_processed) =>
          \A i \in 1..Len(SelectedEdits) :
              Blank(SelectedEdits[i].v) =>
                  /\ DictHas(SelectedRecord(all_results'), SelectedEdits[i].k)
                         = DictHas(SelectedRecord(all_results), SelectedEdits[i].k)
                  /\ DictGet(SelectedRecord(all_results'), SelectedEdits[i].k, <<>>)
                         = DictGet(SelectedRecord(all_results), SelectedEdits[i].k, <<>>)
                  /\ feedback_data' # feedback_data
                         => ~DictHas(feedback_data', SelectedEdits[i].k)]_vars

\* Corrections are pending for the selected drawing, one of whose fields has
\* a blank edit, no pending correction and its extracted value
C23_Witness ==
    /\ show_feedback_popup
    /\ feedback_data # <<>>
    /\ Truthy(selected_drawing)
    /\ \E i \in 1..Len(SelectedEdits) :
          /\ Blank(SelectedEdits[i].v)
          /\ ~DictHas(feedback_data, SelectedEdits[i].k)
          /\ DictGet(SelectedRecord(all_results), SelectedEdits[i].k, <<>>) = <<"D","1">>

\* C24 (as claimed): a step of "Save Changes" with a correction that is not
\* blank and differs from the stored value appends to the feedback history.
C24_SaveAppendsHistory ==
    [][SaveStores => Len(feedback_history') = Len(feedback_history) + 1]_vars

\* C24 (amended): a step of "Save Changes" with a correction that is not
\* blank and differs makes the pending feedback hold, for exactly those
\* fields, the value stored before and the corrected value, shows the popup
\* and leaves the history as it is; the history grows only by "Submit
\* Feedback", by one package with the pending corrections under the selected
\* drawing; a step that stores nothing sets no pending feedback.
C24_SavePendsSubmitAppends ==
    [][/\ SaveStores =>
            /\ feedback_history' = feedback_history
            /\ show_feedback_popup'
            /\ feedback_data' # <<>>
            /\ \A i \in 1..Len(SelectedEdits) :
                   DictHas(feedback_data', SelectedEdits[i].k)
                       <=> /\ ~Blank(SelectedEdits[i].v)
                           /\ SelectedEdits[i].v #
                                  DictGet(SelectedRecord(all_results),
                                          SelectedEdits[i].k, <<>>)
            /\ \A i \in 1..Len(feedback_data') :
                   /\ DictHas(SelectedEdits, feedback_data'[i].k)
                   /\ feedback_data'[i].v.original =
                          DictGet(SelectedRecord(all_results), feedback_data'[i].k, <<>>)
                   /\ feedback_data'[i].v.corrected =
                          DictGet(SelectedEdits, feedback_data'[i].k, <<>>)
                   /\ feedback_data'[i].v.corrected =
                          DictGet(SelectedRecord(all_results'), feedback_data'[i].k, <<>>)
       /\ feedback_history' # feedback_history =>
            /\ show_feedback_popup /\ ~show_feedback_popup'
            /\ feedback_data # <<>> /\ feedback_data' = <<>>
            /\ Len(feedback_history') = Len(feedback_history) + 1
            /\ SubSeq(feedback_history', 1, Len(feedback_history)) = feedback_history
            /\ feedback_history'[Len(feedback_history')].drawing_number = selected_drawing
            /\ feedback_history'[Len(feedback_history')].corrections.corrections
                   = feedback_data
       /\ (m_processed' = m_processed /\ all_results' = all_results) =>
            feedback_data' \in {feedback_data, <<>>}]_vars

\* A package with corrections is in the history
C24_Witness ==
    /\ feedback_history # <<>>
    /\ feedback_history[1].corrections.corrections # <<>>
    /\ ~show_feedback_popup


\* C28 (as claimed): whenever the feedback popup is shown, a drawing is
\* selected and it is the drawing whose record holds the pending corrections,
\* and "Submit Feedback" never ends in an error for want of that drawing.
C28_PopupOnCorrectedDrawing ==
    /\ show_feedback_popup =>
           /\ Truthy(selected_drawing)
           /\ DictHas(all_results, selected_drawing.v)
           /\ \A i \in 1..Len(feedback_data) :
                  DictGet(SelectedRecord(all_results), feedback_data[i].k, <<>>)
                      = feedback_data[i].v.corrected
    /\ m_error # IndexErrorText

\* C30 (as claimed): for every number under which values are stored, the
\* category whose expected fields the detail view lists is the category of
\* the newest drawing with that number, the one whose values are stored.
C30_ViewPairsNewest ==
    \A i \in 1..Len(all_results) :
        RowsNumbered(drawings_table, all_results[i].k) # {} =>
            TypeOfDrawing(drawings_table, all_results[i].k)
                = drawings_table[
                      CHOOSE n \in RowsNumbered(drawings_table, all_results[i].k) :
                          \A j \in RowsNumbered(drawings_table, all_results[i].k) :
                              j <= n].DrawingType

====
